---- MODULE Spec2Model ----
(***************************************************************************)
(* The bonk_escrow_final program (programs/non-custodial-escrow/src/lib.rs) *)
(* as a state machine.  The state is the set of EscrowState accounts and   *)
(* the amounts of the token accounts; one action per instruction           *)
(* (initialize, deposit, distribute).  An instruction is the validation of *)
(* its #[derive(Accounts)] struct followed by its handler.  Token          *)
(* transfers are the SPL token program's: they are applied one by one, as  *)
(* the handler issues them, and nothing the handler has issued is undone   *)
(* by the handler when it returns an error afterwards.                     *)
(***************************************************************************)
EXTENDS Integers, Sequences, FiniteSets, TLC

VARIABLES escrow, amounts, last, succeeded

vars == <<escrow, amounts, last, succeeded>>

(***************************************************************************)
(* Program constants.                                                      *)
(***************************************************************************)
MaxNameLen == 32        \* require!(name.len() <= 32, ...)
MaxSeedLen == 32        \* name.as_bytes() is a seed of the escrow address
MaxContributors == 5    \* require!(esc.contributors.len() < 5, ...)
DepositAmount == 5      \* require!(amount == 5, ...)
FullCount == 5          \* require!(esc.contributors.len() == 5, ...)

(***************************************************************************)
(* Bounds of the model.                                                    *)
(***************************************************************************)
InitBalance == 5        \* tokens a funded key holds initially

(***************************************************************************)
(* Identities, names and accounts.                                         *)
(***************************************************************************)
Funded == {"k1", "k2", "k3", "k4", "k5", "k6"}
Keys == Funded \cup {"k0"}
Creators == {"k0"}
Mints == {"bonk"}

LongName == "pool-name-of-thirty-three-bytes-x"
ShortNames == {"pool1", "pool2"}
Names == ShortNames \cup {LongName}
CreateNames == {"pool1", LongName}

NoAccount == [owner |-> "none"]

\* seeds = [b"escrow", owner, name]: the address of the escrow account
EscrowAddress(owner, name) == <<owner, name>>
RecIds == {EscrowAddress(o, n) : o \in Creators, n \in ShortNames}

\* an identity that signs or owns: a key, or the derived authority of a
\* record, seeds = [b"vault-auth", escrow.key()]
Pubkey(k) == <<"key", k, "">>
VaultAuth(rec) == <<"vault-auth", rec[1], rec[2]>>
\* get_associated_token_address(owner, mint), one mint
AtaOf(id) == <<"ata", id[1], id[2], id[3]>>
Ata(k) == AtaOf(Pubkey(k))
Vault(rec) == AtaOf(VaultAuth(rec))
\* the owner (authority) of a token account
Authority(acc) == <<acc[2], acc[3], acc[4]>>

Atas == {Ata(k) : k \in Keys}
TokenAccounts == Atas \cup {Vault(r) : r \in RecIds}

Exists(esc, rec) == rec \in RecIds /\ esc[rec] # NoAccount
Records(esc) == {r \in RecIds : esc[r] # NoAccount}

Contains(seq, x) == \E i \in 1..Len(seq) : seq[i] = x
Elems(seq) == {seq[i] : i \in 1..Len(seq)}

Out(res, esc, amts) == [res |-> res, escrow |-> esc, amounts |-> amts]

(***************************************************************************)
(* token::transfer (SPL token program): the source must hold the amount    *)
(* and the authority must own the source; a transfer to the source itself  *)
(* passes the same checks and moves nothing.                               *)
(***************************************************************************)
transfer(amts, from, to, authority, n) ==
    IF amts[from] < n THEN [ok |-> FALSE, amounts |-> amts]
    ELSE IF Authority(from) # authority THEN [ok |-> FALSE, amounts |-> amts]
    ELSE IF from = to THEN [ok |-> TRUE, amounts |-> amts]
    ELSE [ok |-> TRUE,
          amounts |-> [amts EXCEPT ![from] = @ - n, ![to] = @ + n]]

(***************************************************************************)
(* The seeds constraint of Deposit and Distribute: the escrow account      *)
(* passed must sit at the address derived from its stored owner and the    *)
(* name argument.  A seed longer than MaxSeedLen has no address.  The      *)
(* constraint is checked before the handler runs; an EscrowState account   *)
(* sits at the address of the owner and name it stores, so the constraint  *)
(* passes exactly for the stored name.                                     *)
(***************************************************************************)
SeedsCheck(e, rec, name) ==
    IF Len(name) > MaxSeedLen THEN "MaxSeedLengthExceeded"
    ELSE IF EscrowAddress(e.owner, name) # rec THEN "ConstraintSeeds"
    ELSE "Ok"

(***************************************************************************)
(* initialize                                                              *)
(***************************************************************************)
\* #[derive(Accounts)] Initialize: escrow and vault_ata are init accounts
InitializeCtx(esc, owner, name) ==
    IF Len(name) > MaxSeedLen THEN "MaxSeedLengthExceeded"
    ELSE IF Exists(esc, EscrowAddress(owner, name)) THEN "AccountInUse"
    ELSE "Ok"

initialize(esc, amts, owner, name, mint) ==
    LET rec == EscrowAddress(owner, name) IN
    IF ~(Len(name) <= MaxNameLen) THEN Out("NameTooLong", esc, amts)
    ELSE Out("Ok",
             [esc EXCEPT ![rec] = [owner |-> owner,
                                   token_mint |-> mint,
                                   contributors |-> <<>>,
                                   distributed |-> FALSE,
                                   name |-> name]],
             [amts EXCEPT ![Vault(rec)] = 0])

InitializeIx(esc, amts, owner, name, mint) ==
    LET c == InitializeCtx(esc, owner, name) IN
    IF c # "Ok" THEN Out(c, esc, amts)
    ELSE initialize(esc, amts, owner, name, mint)

(***************************************************************************)
(* deposit                                                                 *)
(***************************************************************************)
\* #[derive(Accounts)] Deposit: escrow by seeds; contributor_ata is the
\* contributor's associated account; vault_ata is any token account.
DepositCtx(esc, rec, name, vault_ata) ==
    SeedsCheck(esc[rec], rec, name)

\* deposit_require with the contributor cap off by one
deposit_require_cap(e, contributor, name, amount) ==
    IF ~(e.name = name) THEN "NameMismatch"
    ELSE IF ~(Len(e.contributors) <= MaxContributors)
         THEN "MaxContributorsReached"
    ELSE IF Contains(e.contributors, contributor) THEN "AlreadyDeposited"
    ELSE IF ~(amount = DepositAmount) THEN "InvalidDepositAmount"
    ELSE "Ok"

\* deposit_require accepting any amount up to DepositAmount
deposit_require_upto(e, contributor, name, amount) ==
    IF ~(e.name = name) THEN "NameMismatch"
    ELSE IF ~(Len(e.contributors) < MaxContributors)
         THEN "MaxContributorsReached"
    ELSE IF Contains(e.contributors, contributor) THEN "AlreadyDeposited"
    ELSE IF ~(amount <= DepositAmount) THEN "InvalidDepositAmount"
    ELSE "Ok"

\* the four require! of the handler, in order
deposit_require(e, contributor, name, amount) ==
    IF ~(e.name = name) THEN "NameMismatch"
    ELSE IF ~(Len(e.contributors) < MaxContributors)
         THEN "MaxContributorsReached"
    ELSE IF Contains(e.contributors, contributor) THEN "AlreadyDeposited"
    ELSE IF ~(amount = DepositAmount) THEN "InvalidDepositAmount"
    ELSE "Ok"

\* deposit recording the contributor whether or not the transfer succeeds
deposit_push_first(esc, amts, rec, contributor, name, amount, vault_ata) ==
    LET e == esc[rec]
        c == deposit_require(e, contributor, name, amount)
    IN  IF c # "Ok" THEN Out(c, esc, amts)
        ELSE LET t == transfer(amts, Ata(contributor), vault_ata,
                               Pubkey(contributor), amount)
                 pushed == [esc EXCEPT ![rec].contributors =
                                           Append(@, contributor)]
             IN  IF ~t.ok THEN Out("TransferError", pushed, amts)
                 ELSE Out("Ok", pushed, t.amounts)

\* deposit recording the contributor in front of the others
deposit_push_front(esc, amts, rec, contributor, name, amount, vault_ata) ==
    LET e == esc[rec]
        c == deposit_require(e, contributor, name, amount)
    IN  IF c # "Ok" THEN Out(c, esc, amts)
        ELSE LET t == transfer(amts, Ata(contributor), vault_ata,
                               Pubkey(contributor), amount)
             IN  IF ~t.ok THEN Out("TransferError", esc, amts)
                 ELSE Out("Ok",
                          [esc EXCEPT ![rec].contributors =
                                          <<contributor>> \o @],
                          t.amounts)

deposit(esc, amts, rec, contributor, name, amount, vault_ata) ==
    LET e == esc[rec]
        c == deposit_require(e, contributor, name, amount)
    IN  IF c # "Ok" THEN Out(c, esc, amts)
        ELSE LET t == transfer(amts, Ata(contributor), vault_ata,
                               Pubkey(contributor), amount)
             IN  IF ~t.ok THEN Out("TransferError", esc, amts)
                 ELSE Out("Ok",
                          [esc EXCEPT ![rec].contributors =
                                          Append(@, contributor)],
                          t.amounts)

DepositIx(esc, amts, rec, contributor, name, amount, vault_ata) ==
    LET c == DepositCtx(esc, rec, name, vault_ata) IN
    IF c # "Ok" THEN Out(c, esc, amts)
    ELSE deposit(esc, amts, rec, contributor, name, amount, vault_ata)

(***************************************************************************)
(* distribute                                                              *)
(***************************************************************************)
\* #[derive(Accounts)] Distribute: escrow by seeds; owner is any signer;
\* vault_ata is any token account.
DistributeCtx(esc, rec, name, vault_ata) ==
    SeedsCheck(esc[rec], rec, name)

\* distribute_require without the owner check
distribute_require_anyone(e, owner, name, vault_balance) ==
    IF ~(e.name = name) THEN "NameMismatch"
    ELSE IF e.distributed THEN "AlreadyDistributed"
    ELSE IF ~(Len(e.contributors) = FullCount) THEN "NotFull"
    ELSE IF ~(vault_balance > 0) THEN "InvalidMode"
    ELSE "Ok"

\* distribute_require accepting a record that is not full
distribute_require_upto(e, owner, name, vault_balance) ==
    IF ~(e.name = name) THEN "NameMismatch"
    ELSE IF ~(e.owner = owner) THEN "Unauthorized"
    ELSE IF e.distributed THEN "AlreadyDistributed"
    ELSE IF ~(Len(e.contributors) <= FullCount) THEN "NotFull"
    ELSE IF ~(vault_balance > 0) THEN "InvalidMode"
    ELSE "Ok"

\* distribute_require without the distributed check
distribute_require_again(e, owner, name, vault_balance) ==
    IF ~(e.name = name) THEN "NameMismatch"
    ELSE IF ~(e.owner = owner) THEN "Unauthorized"
    ELSE IF ~(Len(e.contributors) = FullCount) THEN "NotFull"
    ELSE IF ~(vault_balance > 0) THEN "InvalidMode"
    ELSE "Ok"

\* the five require! before the match, in order
distribute_require(e, owner, name, vault_balance) ==
    IF ~(e.name = name) THEN "NameMismatch"
    ELSE IF ~(e.owner = owner) THEN "Unauthorized"
    ELSE IF e.distributed THEN "AlreadyDistributed"
    ELSE IF ~(Len(e.contributors) = FullCount) THEN "NotFull"
    ELSE IF ~(vault_balance > 0) THEN "InvalidMode"
    ELSE "Ok"

\* mode0 paying the target one contributor's part of vault_balance
mode0_part(e, amts, rec, target_pubkey, vault_ata, remaining_accounts, vault_balance) ==
    IF ~Contains(e.contributors, target_pubkey)
    THEN [res |-> "InvalidTarget", amounts |-> amts]
    ELSE IF Ata(target_pubkey) \notin remaining_accounts
    THEN [res |-> "MissingRecipientAta", amounts |-> amts]
    ELSE LET t == transfer(amts, vault_ata, Ata(target_pubkey),
                           VaultAuth(rec),
                           vault_balance \div Len(e.contributors))
         IN  IF ~t.ok THEN [res |-> "TransferError", amounts |-> amts]
             ELSE [res |-> "Ok", amounts |-> t.amounts]

\* mode0 without the membership check of the target
mode0_anytarget(e, amts, rec, target_pubkey, vault_ata, remaining_accounts, vault_balance) ==
    IF Ata(target_pubkey) \notin remaining_accounts
    THEN [res |-> "MissingRecipientAta", amounts |-> amts]
    ELSE LET t == transfer(amts, vault_ata, Ata(target_pubkey),
                           VaultAuth(rec), vault_balance)
         IN  IF ~t.ok THEN [res |-> "TransferError", amounts |-> amts]
             ELSE [res |-> "Ok", amounts |-> t.amounts]

\* Mode 0: the whole vault_balance to the target's associated account
mode0(e, amts, rec, target_pubkey, vault_ata, remaining_accounts, vault_balance) ==
    IF ~Contains(e.contributors, target_pubkey)
    THEN [res |-> "InvalidTarget", amounts |-> amts]
    ELSE IF Ata(target_pubkey) \notin remaining_accounts
    THEN [res |-> "MissingRecipientAta", amounts |-> amts]
    ELSE LET t == transfer(amts, vault_ata, Ata(target_pubkey),
                           VaultAuth(rec), vault_balance)
         IN  IF ~t.ok THEN [res |-> "TransferError", amounts |-> amts]
             ELSE [res |-> "Ok", amounts |-> t.amounts]

\* Mode 1: the contributors other than target_pubkey, in contributor order
recipients(contributors, target_pubkey) ==
    SelectSeq(contributors, LAMBDA c : c # target_pubkey)

\* share dividing by the number of contributors, not of recipients
share_of_all(vault_balance, n) == vault_balance \div FullCount

\* share rounded up
share_ceil(vault_balance, n) == (vault_balance + n - 1) \div n

share(vault_balance, n) == vault_balance \div n

\* the for loop of mode 1: one transfer per recipient, stopping at the
\* first error with the transfers already issued in place
RECURSIVE pay(_, _, _, _, _, _)
pay(amts, rec, recips, sh, vault_ata, remaining_accounts) ==
    IF recips = <<>> THEN [res |-> "Ok", amounts |-> amts]
    ELSE IF Ata(Head(recips)) \notin remaining_accounts
    THEN [res |-> "MissingRecipientAta", amounts |-> amts]
    ELSE LET t == transfer(amts, vault_ata, Ata(Head(recips)),
                           VaultAuth(rec), sh)
         IN  IF ~t.ok THEN [res |-> "TransferError", amounts |-> amts]
             ELSE pay(t.amounts, rec, Tail(recips), sh, vault_ata,
                      remaining_accounts)

\* mode1 looking up every recipient's account before the first transfer
mode1_all_or_none(e, amts, rec, target_pubkey, vault_ata, remaining_accounts, vault_balance) ==
    LET rs == recipients(e.contributors, target_pubkey) IN
    IF ~(Len(rs) > 0) THEN [res |-> "InvalidMode", amounts |-> amts]
    ELSE IF \E i \in 1..Len(rs) : Ata(rs[i]) \notin remaining_accounts
    THEN [res |-> "MissingRecipientAta", amounts |-> amts]
    ELSE pay(amts, rec, rs, share(vault_balance, Len(rs)), vault_ata,
             remaining_accounts)

mode1(e, amts, rec, target_pubkey, vault_ata, remaining_accounts, vault_balance) ==
    LET rs == recipients(e.contributors, target_pubkey) IN
    IF ~(Len(rs) > 0) THEN [res |-> "InvalidMode", amounts |-> amts]
    ELSE pay(amts, rec, rs, share(vault_balance, Len(rs)), vault_ata,
             remaining_accounts)

\* set_distributed leaving the flag as it is
set_distributed_not(esc, rec) == esc

\* esc.distributed = true
set_distributed(esc, rec) == [esc EXCEPT ![rec].distributed = TRUE]

distribute(esc, amts, rec, owner, name, mode, target_pubkey, vault_ata, remaining_accounts) ==
    LET e == esc[rec]
        vault_balance == amts[vault_ata]
        c == distribute_require(e, owner, name, vault_balance)
    IN  IF c # "Ok" THEN Out(c, esc, amts)
        ELSE LET m == CASE mode = 0 ->
                            mode0(e, amts, rec, target_pubkey, vault_ata,
                                  remaining_accounts, vault_balance)
                        [] mode = 1 ->
                            mode1(e, amts, rec, target_pubkey, vault_ata,
                                  remaining_accounts, vault_balance)
                        [] OTHER -> [res |-> "InvalidMode", amounts |-> amts]
             IN  IF m.res # "Ok" THEN Out(m.res, esc, m.amounts)
                 ELSE Out("Ok", set_distributed(esc, rec), m.amounts)

DistributeIx(esc, amts, rec, owner, name, mode, target_pubkey, vault_ata, remaining_accounts) ==
    LET c == DistributeCtx(esc, rec, name, vault_ata) IN
    IF c # "Ok" THEN Out(c, esc, amts)
    ELSE distribute(esc, amts, rec, owner, name, mode, target_pubkey,
                    vault_ata, remaining_accounts)

(***************************************************************************)
(* The inputs the callers choose.                                          *)
(***************************************************************************)
Amounts == {DepositAmount - 1, DepositAmount, DepositAmount + 1}
Modes == {0, 1, 2}
\* the names passed to deposit and distribute
CallNames == ShortNames
\* the signers of distribute: the creator and a key that is not
Callers == Creators \cup {"k1"}
\* a token account the signer can pass as vault_ata: the vault of a
\* record or, for a signer of Strayers, its own associated account
Strayers == {"k0", "k2"}
VaultChoices(esc, signer) ==
    {Vault(r) : r \in Records(esc)}
        \cup (IF signer \in Strayers THEN {Ata(signer)} ELSE {})
\* the auxiliary accounts: every receiving account, or every one but those
\* of MissingKeys
MissingKeys == {"k3"}
RemainingChoices == {Atas \ {Ata(k) : k \in S} : S \in SUBSET MissingKeys}
\* The signers of deposit: the keys without funds, the keys that have
\* contributed, and the first funded key in KeyOrder that has not (the
\* funded keys come to the escrow one after the other).
KeyOrder == <<"k0", "k1", "k2", "k3", "k4", "k5", "k6">>
Joined(esc) == UNION {Elems(esc[r].contributors) : r \in Records(esc)}
Depositors(esc) ==
    {KeyOrder[i] : i \in {j \in 1..Len(KeyOrder) :
        \/ KeyOrder[j] \in Joined(esc)
        \/ KeyOrder[j] \notin Funded
        \/ \A h \in 1..(j - 1) :
              KeyOrder[h] \in Joined(esc) \/ KeyOrder[h] \notin Funded}}

(***************************************************************************)
(* The state machine.  last is the instruction executed last and its       *)
(* result; succeeded is the set of records on which a distribute has       *)
(* returned Ok.                                                            *)
(***************************************************************************)
Init ==
    /\ escrow = [r \in RecIds |-> NoAccount]
    /\ amounts = [a \in TokenAccounts |->
                    IF a \in {Ata(k) : k \in Funded} THEN InitBalance ELSE 0]
    /\ last = [op |-> "none", rec |-> <<>>, res |-> "none"]
    /\ succeeded = {}

Apply(op, rec, out) ==
    /\ escrow' = out.escrow
    /\ amounts' = out.amounts
    /\ last' = [op |-> op, rec |-> rec, res |-> out.res]
    /\ succeeded' = IF op = "distribute" /\ out.res = "Ok"
                    THEN succeeded \cup {rec} ELSE succeeded

Initialize(owner, name, mint) ==
    Apply("initialize", EscrowAddress(owner, name),
          InitializeIx(escrow, amounts, owner, name, mint))

Deposit(rec, contributor, name, amount, vault_ata) ==
    /\ Exists(escrow, rec)
    /\ Apply("deposit", rec,
             DepositIx(escrow, amounts, rec, contributor, name, amount,
                       vault_ata))

Distribute(rec, owner, name, mode, target_pubkey, vault_ata, remaining_accounts) ==
    /\ Exists(escrow, rec)
    /\ Apply("distribute", rec,
             DistributeIx(escrow, amounts, rec, owner, name, mode,
                          target_pubkey, vault_ata, remaining_accounts))

Next ==
    \/ \E owner \in Creators, name \in CreateNames, mint \in Mints :
          Initialize(owner, name, mint)
    \/ \E rec \in RecIds, contributor \in Depositors(escrow),
          name \in CallNames, amount \in Amounts :
          \E vault_ata \in VaultChoices(escrow, contributor) :
             Deposit(rec, contributor, name, amount, vault_ata)
    \/ \E rec \in RecIds, owner \in Callers, name \in CallNames,
          mode \in Modes,
          target_pubkey \in Keys, remaining_accounts \in RemainingChoices :
          \E vault_ata \in VaultChoices(escrow, owner) :
             Distribute(rec, owner, name, mode, target_pubkey, vault_ata,
                        remaining_accounts)

Spec == Init /\ [][Next]_vars

(***************************************************************************)
(* The calls the claims quantify over, applied to the current state.       *)
(***************************************************************************)
ExistingAccounts == Atas \cup {Vault(r) : r \in Records(escrow)}
DepositOf(rec, contributor, name, amount, vault_ata) ==
    DepositIx(escrow, amounts, rec, contributor, name, amount, vault_ata)
DistributeOf(rec, owner, name, mode, target_pubkey, vault_ata, remaining_accounts) ==
    DistributeIx(escrow, amounts, rec, owner, name, mode, target_pubkey,
                 vault_ata, remaining_accounts)
NoEffect(out) == out.escrow = escrow /\ out.amounts = amounts
\* the signers of distribute that do not own the record, and the key that
\* never contributes
NonOwners(rec) == (Callers \cup {"k6"}) \ {escrow[rec].owner}
\* the token accounts a signer passes as vault_ata with a record: the
\* record's vault or the signer's own associated account
PassedVaults(rec, signer) == {Vault(rec), Ata(signer)}

(***************************************************************************)
(* C1: in every reachable state the contributors of a record are at most 5 *)
(* and no identity is in the list twice.                                   *)
(***************************************************************************)
C1_ContributorsBounded ==
    \A rec \in Records(escrow) :
        LET cs == escrow[rec].contributors IN
        /\ Len(cs) <= 5
        /\ \A i, j \in 1..Len(cs) : cs[i] = cs[j] => i = j

\* a deposit by a sixth, funded key was refused on a full record
C1_Witness ==
    /\ last.op = "deposit" /\ last.res = "MaxContributorsReached"
    /\ Len(escrow[last.rec].contributors) = 5
    /\ \E k \in Keys : /\ ~Contains(escrow[last.rec].contributors, k)
                       /\ amounts[Ata(k)] >= 5

(***************************************************************************)
(* C2: every successful deposit on a record adds exactly 5 to that         *)
(* record's own vault, takes exactly 5 from the depositor and lengthens    *)
(* contributors by one, whatever accounts the depositor supplies.          *)
(***************************************************************************)
C2_DepositFundsOwnVault ==
    [][(last'.op = "deposit" /\ last'.res = "Ok") =>
          LET rec == last'.rec
              depositor == escrow'[rec].contributors[
                               Len(escrow'[rec].contributors)]
          IN  /\ Len(escrow'[rec].contributors)
                    = Len(escrow[rec].contributors) + 1
              /\ amounts'[Vault(rec)] = amounts[Vault(rec)] + 5
              /\ amounts'[Ata(depositor)] = amounts[Ata(depositor)] - 5]_vars

(***************************************************************************)
(* C3 as claimed: a deposit with amount # 5 fails with InvalidDepositAmount *)
(* and leaves contributors unchanged, in every reachable state and for     *)
(* every depositor and supplied name.                                      *)
(***************************************************************************)
C3_AlwaysInvalidDepositAmount ==
    \A rec \in Records(escrow), contributor \in Keys, name \in Names,
       amount \in Amounts \ {5}, vault_ata \in ExistingAccounts :
        LET out == DepositOf(rec, contributor, name, amount, vault_ata) IN
        /\ out.res = "InvalidDepositAmount"
        /\ out.escrow[rec].contributors = escrow[rec].contributors

(***************************************************************************)
(* C3 amended: a deposit with amount # 5 always fails and changes neither  *)
(* the record nor a balance; the error is InvalidDepositAmount when the    *)
(* name matches, the record has fewer than 5 contributors and the          *)
(* depositor is not a contributor yet.                                     *)
(***************************************************************************)
C3_WrongAmountRejected ==
    \A rec \in Records(escrow), contributor \in Keys, name \in Names,
       amount \in Amounts \ {5}, vault_ata \in ExistingAccounts :
        LET out == DepositOf(rec, contributor, name, amount, vault_ata)
            e == escrow[rec]
        IN  /\ out.res # "Ok"
            /\ NoEffect(out)
            /\ (/\ name = e.name
                /\ Len(e.contributors) < 5
                /\ ~Contains(e.contributors, contributor))
                   => out.res = "InvalidDepositAmount"

C3_Witness ==
    /\ last.op = "deposit" /\ last.res = "InvalidDepositAmount"
    /\ Len(escrow[last.rec].contributors) \in 1..4

(***************************************************************************)
(* C4 as claimed: distribute called by a key that is not the owner fails   *)
(* with Unauthorized whatever the supplied name, mode, target, contributor *)
(* count, distributed flag and vault balance, and changes nothing.         *)
(***************************************************************************)
C4_NonOwnerAlwaysUnauthorized ==
    \A rec \in Records(escrow), name \in Names, mode \in Modes,
       target_pubkey \in Keys, remaining_accounts \in RemainingChoices :
        \A owner \in NonOwners(rec) :
            \A vault_ata \in VaultChoices(escrow, owner) \cup {Ata(owner)} :
                LET out == DistributeOf(rec, owner, name, mode,
                                        target_pubkey, vault_ata,
                                        remaining_accounts)
                IN  out.res = "Unauthorized" /\ NoEffect(out)

(***************************************************************************)
(* C4 amended: distribute called by a key that is not the owner always     *)
(* fails and changes nothing; when the supplied name is the record's, the  *)
(* error is Unauthorized whatever the mode, target, contributor count,     *)
(* distributed flag and vault balance.                                     *)
(***************************************************************************)
C4_NonOwnerRejected ==
    \A rec \in Records(escrow), name \in Names, mode \in Modes,
       target_pubkey \in Keys, remaining_accounts \in RemainingChoices :
        \A owner \in NonOwners(rec) :
            \A vault_ata \in VaultChoices(escrow, owner) \cup {Ata(owner)} :
                LET out == DistributeOf(rec, owner, name, mode,
                                        target_pubkey, vault_ata,
                                        remaining_accounts)
                IN  /\ out.res # "Ok"
                    /\ NoEffect(out)
                    /\ name = escrow[rec].name => out.res = "Unauthorized"

\* a key that is not the owner was refused on a full, undistributed record
C4_Witness ==
    /\ last.op = "distribute" /\ last.res = "Unauthorized"
    /\ Len(escrow[last.rec].contributors) = 5
    /\ ~escrow[last.rec].distributed
    /\ amounts[Vault(last.rec)] > 0

(***************************************************************************)
(* C5 as claimed: distribute on a record with fewer than 5 contributors    *)
(* fails with NotFull for every caller, supplied name, mode and target.    *)
(***************************************************************************)
C5_AlwaysNotFull ==
    \A rec \in {r \in Records(escrow) : Len(escrow[r].contributors) < 5} :
        \A owner \in Keys, name \in Names, mode \in Modes,
           target_pubkey \in Keys, remaining_accounts \in RemainingChoices,
           vault_ata \in ExistingAccounts :
            DistributeOf(rec, owner, name, mode, target_pubkey, vault_ata,
                         remaining_accounts).res = "NotFull"

(***************************************************************************)
(* C5 amended: distribute on a record with fewer than 5 contributors       *)
(* always fails and changes nothing; when the caller is the owner and the  *)
(* supplied name is the record's, the error is NotFull for every mode and  *)
(* target.                                                                 *)
(***************************************************************************)
C5_NotFullRejected ==
    \A rec \in {r \in Records(escrow) : Len(escrow[r].contributors) < 5} :
        \A owner \in Keys, name \in Names, mode \in Modes,
           target_pubkey \in Keys, remaining_accounts \in RemainingChoices,
           vault_ata \in ExistingAccounts :
            LET out == DistributeOf(rec, owner, name, mode, target_pubkey,
                                    vault_ata, remaining_accounts)
                e == escrow[rec]
            IN  /\ out.res # "Ok"
                /\ NoEffect(out)
                /\ (owner = e.owner /\ name = e.name) => out.res = "NotFull"

C5_Witness ==
    /\ last.op = "distribute" /\ last.res = "NotFull"
    /\ Len(escrow[last.rec].contributors) \in 1..4
    /\ amounts[Vault(last.rec)] > 0

(***************************************************************************)
(* C6: once a distribute has succeeded on a record, every distribute on it *)
(* by the owner with the record's name fails with AlreadyDistributed, for  *)
(* every mode, target and vault balance, and moves no funds.               *)
(***************************************************************************)
C6_SecondDistributeRejected ==
    \A rec \in succeeded :
        \A mode \in Modes, target_pubkey \in Keys,
           remaining_accounts \in RemainingChoices,
           vault_ata \in ExistingAccounts :
            LET out == DistributeOf(rec, escrow[rec].owner, escrow[rec].name,
                                    mode, target_pubkey, vault_ata,
                                    remaining_accounts)
            IN  out.res = "AlreadyDistributed" /\ NoEffect(out)

\* the owner called again after a distribute that emptied the vault
C6_Witness ==
    /\ last.op = "distribute" /\ last.res = "AlreadyDistributed"
    /\ last.rec \in succeeded
    /\ amounts[Vault(last.rec)] = 0

(***************************************************************************)
(* C7: a successful mode-0 distribute has its target among the             *)
(* contributors; with B the vault balance before the call, it adds exactly *)
(* B to the target's associated account, leaves the vault at 0, leaves     *)
(* the account of every other key as it was and sets distributed.          *)
(***************************************************************************)
C7_Mode0PaysTarget ==
    \A rec \in Records(escrow), owner \in Callers, name \in Names,
       target_pubkey \in Keys, remaining_accounts \in RemainingChoices :
        \A vault_ata \in VaultChoices(escrow, owner) :
            LET out == DistributeOf(rec, owner, name, 0, target_pubkey,
                                    vault_ata, remaining_accounts)
                B == amounts[Vault(rec)]
            IN  out.res = "Ok"
                    => /\ Contains(escrow[rec].contributors, target_pubkey)
                       /\ out.amounts[Ata(target_pubkey)]
                              = amounts[Ata(target_pubkey)] + B
                       /\ out.amounts[Vault(rec)] = 0
                       /\ \A k \in Keys \ {target_pubkey} :
                              out.amounts[Ata(k)] = amounts[Ata(k)]
                       /\ out.escrow[rec].distributed

\* after a successful distribute the vault is empty and one contributor
\* holds the 25 of five deposits
C7_Witness ==
    /\ last.op = "distribute" /\ last.res = "Ok"
    /\ amounts[Vault(last.rec)] = 0
    /\ escrow[last.rec].distributed
    /\ \E k \in Elems(escrow[last.rec].contributors) :
           amounts[Ata(k)] >= 25

(***************************************************************************)
(* C8: a successful mode-1 distribute on a record with 5 contributors and  *)
(* vault balance B pays each contributor other than the target exactly     *)
(* B \div n (n = 4 when the target is a contributor, 5 otherwise), pays    *)
(* the target nothing and leaves B - n * (B \div n) in the vault.          *)
(***************************************************************************)
C8_Mode1EqualShares ==
    \A rec \in Records(escrow), owner \in Callers, name \in Names,
       target_pubkey \in Keys, remaining_accounts \in RemainingChoices :
        \A vault_ata \in VaultChoices(escrow, owner) :
            LET out == DistributeOf(rec, owner, name, 1, target_pubkey,
                                    vault_ata, remaining_accounts)
                cs == escrow[rec].contributors
                B == amounts[Vault(rec)]
                n == IF target_pubkey \in Elems(cs) THEN 4 ELSE 5
            IN  (out.res = "Ok" /\ Len(cs) = 5)
                    => /\ \A k \in Elems(cs) \ {target_pubkey} :
                              out.amounts[Ata(k)] = amounts[Ata(k)] + B \div n
                       /\ out.amounts[Ata(target_pubkey)]
                              = amounts[Ata(target_pubkey)]
                       /\ out.amounts[Vault(rec)] = B - n * (B \div n)

\* the example of the claim: 25 shared by 4, each gets 6 and 1 stays
C8_Witness ==
    /\ last.op = "distribute" /\ last.res = "Ok"
    /\ amounts[Vault(last.rec)] = 1
    /\ Cardinality({k \in Elems(escrow[last.rec].contributors) :
                       amounts[Ata(k)] = InitBalance - 5 + 6}) = 4

C10_DistributeEmptiesVault ==
    [][(last'.op = "distribute" /\ last'.res = "Ok") =>
          /\ amounts'[Vault(last'.rec)] = 0
          /\ escrow'[last'.rec].distributed]_vars

(***************************************************************************)
(* C10 amended: every successful distribute leaves distributed = true; in  *)
(* mode 0 it leaves the vault at 0, in mode 1 with n recipients and vault  *)
(* balance B it leaves the remainder of B by n, which is 0 only when n     *)
(* divides B.                                                              *)
(***************************************************************************)
C10_DistributeLeavesRemainder ==
    \A rec \in Records(escrow), owner \in Callers, name \in Names,
       mode \in Modes, target_pubkey \in Keys,
       remaining_accounts \in RemainingChoices :
        \A vault_ata \in VaultChoices(escrow, owner) :
            LET out == DistributeOf(rec, owner, name, mode, target_pubkey,
                                    vault_ata, remaining_accounts)
                B == amounts[Vault(rec)]
                n == Cardinality(Elems(escrow[rec].contributors)
                                     \ {target_pubkey})
            IN  out.res = "Ok"
                    => /\ out.escrow[rec].distributed
                       /\ mode \in {0, 1}
                       /\ mode = 0 => out.amounts[Vault(rec)] = 0
                       /\ mode = 1 => out.amounts[Vault(rec)] = B % n

\* a successful distribute has left a remainder in the vault
C10_Witness ==
    /\ last.op = "distribute" /\ last.res = "Ok"
    /\ escrow[last.rec].distributed
    /\ amounts[Vault(last.rec)] > 0

(***************************************************************************)
(* C11: a step never takes distributed of a record from true to false, and *)
(* a record with distributed = true is terminal: every deposit and every   *)
(* distribute on it fails and changes no record and no balance; a deposit  *)
(* under the record's name is refused with MaxContributorsReached, a       *)
(* distribute by the owner under the record's name with                    *)
(* AlreadyDistributed.                                                     *)
(***************************************************************************)
C11_Terminal ==
    \A rec \in {r \in Records(escrow) : escrow[r].distributed} :
        /\ \A contributor \in Keys, name \in Names, amount \in Amounts :
              \A vault_ata \in PassedVaults(rec, contributor) :
              LET out == DepositOf(rec, contributor, name, amount, vault_ata)
              IN  /\ out.res # "Ok"
                  /\ NoEffect(out)
                  /\ name = escrow[rec].name
                        => out.res = "MaxContributorsReached"
        /\ \A owner \in Callers, name \in Names, mode \in Modes,
              target_pubkey \in Keys :
              \A vault_ata \in PassedVaults(rec, owner) :
              LET out == DistributeOf(rec, owner, name, mode, target_pubkey,
                                      vault_ata, Atas)
              IN  /\ out.res # "Ok"
                  /\ NoEffect(out)
                  /\ (name = escrow[rec].name /\ owner = escrow[rec].owner)
                        => out.res = "AlreadyDistributed"

C11_DistributedForever ==
    []C11_Terminal
        /\ [][\A rec \in Records(escrow) :
                 escrow[rec].distributed
                     => rec \in Records(escrow') /\ escrow'[rec].distributed]_vars

\* a deposit has been refused on a distributed record
C11_Witness ==
    /\ last.op = "deposit" /\ last.res = "MaxContributorsReached"
    /\ escrow[last.rec].distributed

(***************************************************************************)
(* C12: in every reachable state, initialize with a name of at most 32     *)
(* bytes succeeds when no record sits at (owner, name) and then yields a   *)
(* record with no contributors, distributed = false and a vault of 0; it   *)
(* fails and changes nothing when a record sits there already; with a name *)
(* longer than 32 bytes it fails with NameTooLong and creates no record.   *)
(***************************************************************************)
C12_CreateOnceOrNameTooLong ==
    \A owner \in Creators, name \in Names, mint \in Mints :
        LET rec == EscrowAddress(owner, name)
            out == InitializeIx(escrow, amounts, owner, name, mint)
        IN  /\ (Len(name) <= 32 /\ ~Exists(escrow, rec))
                  => /\ out.res = "Ok"
                     /\ out.escrow[rec].owner = owner
                     /\ out.escrow[rec].name = name
                     /\ out.escrow[rec].contributors = <<>>
                     /\ out.escrow[rec].distributed = FALSE
                     /\ out.amounts[Vault(rec)] = 0
                     /\ \A r \in RecIds \ {rec} : out.escrow[r] = escrow[r]
            /\ (Len(name) <= 32 /\ Exists(escrow, rec))
                  => out.res # "Ok" /\ NoEffect(out)
            /\ Len(name) > 32
                  => out.res = "NameTooLong" /\ NoEffect(out)

(***************************************************************************)
(* C13: a deposit that violates one of the four preconditions fails with   *)
(* the error of the first violated one in the order name match             *)
(* (NameMismatch), fewer than 5 contributors (MaxContributorsReached),     *)
(* depositor not yet a contributor (AlreadyDeposited), amount = 5          *)
(* (InvalidDepositAmount), and moves no tokens and changes no record.      *)
(***************************************************************************)
C13_DepositCheckOrder ==
    \A rec \in Records(escrow), contributor \in Keys, name \in Names,
       amount \in Amounts :
        \A vault_ata \in PassedVaults(rec, contributor) :
            LET out == DepositOf(rec, contributor, name, amount, vault_ata)
                e == escrow[rec]
                first == IF name # e.name THEN "NameMismatch"
                         ELSE IF ~(Len(e.contributors) < 5)
                              THEN "MaxContributorsReached"
                         ELSE IF Contains(e.contributors, contributor)
                              THEN "AlreadyDeposited"
                         ELSE IF amount # 5 THEN "InvalidDepositAmount"
                         ELSE "none"
            IN  first # "none" => out.res = first /\ NoEffect(out)

(***************************************************************************)
(* C14: a deposit or distribute that returns an error leaves every escrow  *)
(* record as it was: the contributors are not extended and distributed is  *)
(* not set, whether the error comes from a check, from a missing recipient *)
(* account or from the token transfer.                                     *)
(***************************************************************************)
C14_FailureKeepsRecord ==
    [][(last'.op \in {"deposit", "distribute"} /\ last'.res # "Ok")
          => escrow' = escrow]_vars

\* a deposit whose transfer failed, on a record that could take it
C14_Witness ==
    /\ last.op = "deposit" /\ last.res = "TransferError"
    /\ Len(escrow[last.rec].contributors) \in 1..4

(***************************************************************************)
(* C15: on a full, undistributed record with vault balance B > 0, a mode-1 *)
(* distribute by the owner whose auxiliary accounts lack the associated    *)
(* account of the k-th recipient (in contributor order, the earlier ones   *)
(* being present) fails with MissingRecipientAta; each of the first k - 1  *)
(* recipients has received B div n, the k-th and the later ones nothing,   *)
(* the vault holds B - (k - 1) * (B div n), and no record has changed, so  *)
(* distributed is still false.  A distribute by the owner that follows,    *)
(* with every account supplied, succeeds and pays each recipient the       *)
(* quotient of the reduced vault balance by n.                             *)
(***************************************************************************)
C15_Mode1PartialPayout ==
    \A rec \in {r \in Records(escrow) :
                  /\ ~escrow[r].distributed
                  /\ Len(escrow[r].contributors) = 5
                  /\ amounts[Vault(r)] > 0} :
        \A target_pubkey \in Keys, absent \in Keys :
            LET e == escrow[rec]
                rs == SelectSeq(e.contributors, LAMBDA c : c # target_pubkey)
                n == Len(rs)
                B == amounts[Vault(rec)]
                out == DistributeOf(rec, e.owner, e.name, 1, target_pubkey,
                                    Vault(rec), Atas \ {Ata(absent)})
                again == DistributeIx(out.escrow, out.amounts, rec, e.owner,
                                      e.name, 1, target_pubkey, Vault(rec),
                                      Atas)
            IN  \A k \in 1..n :
                  rs[k] = absent =>
                    LET R == B - (k - 1) * (B \div n) IN
                    /\ out.res = "MissingRecipientAta"
                    /\ \A i \in 1..(k - 1) :
                          out.amounts[Ata(rs[i])]
                              = amounts[Ata(rs[i])] + (B \div n)
                    /\ \A i \in k..n :
                          out.amounts[Ata(rs[i])] = amounts[Ata(rs[i])]
                    /\ out.amounts[Vault(rec)] = R
                    /\ out.escrow = escrow
                    /\ again.res = "Ok"
                    /\ again.escrow[rec].distributed
                    /\ \A i \in 1..n :
                          again.amounts[Ata(rs[i])]
                              = out.amounts[Ata(rs[i])] + (R \div n)

\* a mode-1 distribute has stopped at a missing account after paying the
\* first contributor
C15_Witness ==
    /\ last.op = "distribute" /\ last.res = "MissingRecipientAta"
    /\ ~escrow[last.rec].distributed
    /\ Len(escrow[last.rec].contributors) = 5
    /\ amounts[Ata(escrow[last.rec].contributors[1])] > 0
    /\ amounts[Ata(escrow[last.rec].contributors[5])] = 0

(***************************************************************************)
(* C16: a step never changes owner, token_mint or name of an existing      *)
(* record; a successful deposit changes its record only by appending the   *)
(* depositor after the contributors already there, which keep their        *)
(* places; a successful distribute changes its record only by setting      *)
(* distributed to true.                                                    *)
(***************************************************************************)
C16_DepositAppends ==
    \A rec \in Records(escrow), contributor \in Keys, name \in Names,
       amount \in Amounts :
        \A vault_ata \in PassedVaults(rec, contributor) :
            LET out == DepositOf(rec, contributor, name, amount, vault_ata)
            IN  out.res = "Ok" =>
                  out.escrow =
                      [escrow EXCEPT ![rec].contributors =
                                         Append(@, contributor)]

C16_RecordFrame ==
    []C16_DepositAppends
        /\ [][\A rec \in Records(escrow) :
                 LET e == escrow[rec]
                     f == escrow'[rec]
                 IN  /\ rec \in Records(escrow')
                     /\ f.owner = e.owner
                     /\ f.token_mint = e.token_mint
                     /\ f.name = e.name
                     /\ (last'.op = "deposit" /\ last'.res = "Ok"
                            /\ last'.rec = rec)
                           => /\ Len(f.contributors) = Len(e.contributors) + 1
                              /\ SubSeq(f.contributors, 1, Len(e.contributors))
                                    = e.contributors
                              /\ f.distributed = e.distributed
                     /\ (last'.op = "distribute" /\ last'.res = "Ok"
                            /\ last'.rec = rec)
                           => f = [e EXCEPT !.distributed = TRUE]]_vars

\* a deposit has been appended after two earlier contributors
C16_Witness ==
    /\ last.op = "deposit" /\ last.res = "Ok"
    /\ Len(escrow[last.rec].contributors) = 3

(***************************************************************************)
(* Two records.  The owner creates both names; the deposits and the        *)
(* distributes are addressed to either record under its own name, with the *)
(* vault of either record passed as vault_ata; the deposits carry the      *)
(* required amount and come from the key without funds or from the first   *)
(* key in KeyOrder that holds the amount; the distributes name the first   *)
(* key as target and supply every receiving account.                       *)
(***************************************************************************)
PairTargets == {"k1"}
PairModes == {0, 1}
PairDepositors(amts) ==
    (Keys \ Funded)
        \cup {KeyOrder[j] : j \in {i \in 1..Len(KeyOrder) :
                  /\ amts[Ata(KeyOrder[i])] >= DepositAmount
                  /\ \A h \in 1..(i - 1) :
                        amts[Ata(KeyOrder[h])] < DepositAmount}}
PairVaults(esc) == {Vault(r) : r \in Records(esc)}

NextPair ==
    \/ \E owner \in Creators, name \in ShortNames, mint \in Mints :
          Initialize(owner, name, mint)
    \/ \E rec \in RecIds, contributor \in PairDepositors(amounts),
          vault_ata \in PairVaults(escrow) :
          Deposit(rec, contributor, rec[2], DepositAmount, vault_ata)
    \/ \E rec \in RecIds, owner \in Creators, mode \in PairModes,
          target_pubkey \in PairTargets, vault_ata \in PairVaults(escrow) :
          Distribute(rec, owner, rec[2], mode, target_pubkey, vault_ata,
                     Atas)

SpecPair == Init /\ [][NextPair]_vars

(***************************************************************************)
(* C17: with two records, an initialize, deposit or distribute addressed   *)
(* to one record changes no field of the other record and leaves the       *)
(* balance of the other record's vault as it was.                          *)
(***************************************************************************)
C17_RecordsIndependent ==
    [][\A rec \in Records(escrow) :
          (last'.op \in {"initialize", "deposit", "distribute"}
              /\ last'.rec # rec)
             => /\ escrow'[rec] = escrow[rec]
                /\ amounts'[Vault(rec)] = amounts[Vault(rec)]]_vars

(***************************************************************************)
(* C18: the balance of a record's vault goes down only in a distribute on  *)
(* that record, called by its owner under its name while it has 5          *)
(* contributors and distributed = false: no initialize, no deposit and no  *)
(* distribute by another signer, under another name, on a record that is   *)
(* not full or on a distributed record lowers the balance of a vault.      *)
(***************************************************************************)
C18_OnlyOwnerCallLowersVault ==
    \A rec \in Records(escrow) :
        LET e == escrow[rec]
            lowered(out) == \E r \in Records(escrow) :
                               out.amounts[Vault(r)] < amounts[Vault(r)]
        IN  /\ \A contributor \in Keys, name \in Names, amount \in Amounts :
                  \A vault_ata \in PassedVaults(rec, contributor) :
                      ~lowered(DepositOf(rec, contributor, name, amount,
                                         vault_ata))
            /\ \A owner \in Callers, name \in Names, mode \in Modes,
                  target_pubkey \in Keys,
                  remaining_accounts \in RemainingChoices :
                  \A vault_ata \in PassedVaults(rec, owner) :
                      LET out == DistributeOf(rec, owner, name, mode,
                                              target_pubkey, vault_ata,
                                              remaining_accounts)
                      IN  lowered(out)
                             => /\ owner = e.owner
                                /\ name = e.name
                                /\ Len(e.contributors) = 5
                                /\ ~e.distributed
                                /\ \A r \in Records(escrow) \ {rec} :
                                      out.amounts[Vault(r)]
                                          >= amounts[Vault(r)]

C18_VaultOnlyLoweredByOwner ==
    []C18_OnlyOwnerCallLowersVault
        /\ [][\A rec \in Records(escrow) :
                 amounts'[Vault(rec)] < amounts[Vault(rec)]
                    => /\ last'.op = "distribute"
                       /\ last'.rec = rec
                       /\ Len(escrow[rec].contributors) = 5
                       /\ ~escrow[rec].distributed]_vars

\* the owner's distribute has taken tokens out of the vault of a full record
C18_Witness ==
    /\ last.op = "distribute"
    /\ last.res \in {"Ok", "MissingRecipientAta"}
    /\ Len(escrow[last.rec].contributors) = 5
    /\ amounts[Vault(last.rec)] < 20

(***************************************************************************)
(* C19: in every reachable state no token account is overdrawn and the sum *)
(* of the balances of all token accounts (the vaults and the participants' *)
(* accounts) is the sum it was initially, whatever calls have succeeded or *)
(* failed, a mode-1 distribute stopped half-way included; and a distribute *)
(* on a full record with vault balance B takes at most B out of the vault, *)
(* all of it going to contributors' accounts, the n mode-1 shares adding   *)
(* up to at most B.                                                        *)
(***************************************************************************)
RECURSIVE SumOver(_, _)
SumOver(amts, accs) ==
    IF accs = {} THEN 0
    ELSE LET a == CHOOSE x \in accs : TRUE
         IN  amts[a] + SumOver(amts, accs \ {a})

C19_TokensConserved ==
    /\ \A a \in TokenAccounts : amounts[a] >= 0
    /\ SumOver(amounts, TokenAccounts) = Cardinality(Funded) * InitBalance
    /\ \A rec \in {r \in Records(escrow) :
                     /\ ~escrow[r].distributed
                     /\ Len(escrow[r].contributors) = 5
                     /\ amounts[Vault(r)] > 0} :
          \A mode \in Modes, target_pubkey \in Keys,
             remaining_accounts \in RemainingChoices :
              LET e == escrow[rec]
                  B == amounts[Vault(rec)]
                  n == Len(recipients(e.contributors, target_pubkey))
                  out == DistributeOf(rec, e.owner, e.name, mode,
                                      target_pubkey, Vault(rec),
                                      remaining_accounts)
                  paid == B - out.amounts[Vault(rec)]
              IN  /\ paid \in 0..B
                  /\ SumOver(out.amounts, Atas) = SumOver(amounts, Atas) + paid
                  /\ \A k \in Keys : out.amounts[Ata(k)] >= amounts[Ata(k)]
                  /\ n > 0 => n * share(B, n) <= B

\* a mode-1 distribute has stopped half-way, part of the vault paid out
C19_Witness ==
    /\ last.op = "distribute" /\ last.res = "MissingRecipientAta"
    /\ amounts[Vault(last.rec)] \in 1..24
    /\ SumOver(amounts, Atas) + amounts[Vault(last.rec)]
          = Cardinality(Funded) * InitBalance
    /\ \E k \in Elems(escrow[last.rec].contributors) : amounts[Ata(k)] > 5

(***************************************************************************)
(* One record whose participants keep calling.  The owner creates          *)
(* "pool1"; each of five funded keys, in KeyOrder, calls deposit under the *)
(* record's name with the required amount, passing as vault_ata the        *)
(* record's vault or the associated account of a sixth key; the owner      *)
(* calls distribute under the record's name with mode 0 or 1, a            *)
(* contributor as target, the record's vault and every receiving account.  *)
(* Every one of these calls that can change the state is eventually made.  *)
(***************************************************************************)
LiveRec == EscrowAddress("k0", "pool1")
LiveKeys == {"k1", "k2", "k3", "k4", "k5"}
LiveVaults == {Vault(LiveRec), Ata("k6")}
LiveModes == {0, 1}

LiveCreate == Initialize("k0", "pool1", "bonk")

LiveDeposit(k) ==
    /\ Exists(escrow, LiveRec)
    /\ \A i, j \in 1..Len(KeyOrder) :
          (KeyOrder[j] = k /\ i < j /\ KeyOrder[i] \in LiveKeys)
             => Contains(escrow[LiveRec].contributors, KeyOrder[i])
    /\ \E vault_ata \in LiveVaults :
          Deposit(LiveRec, k, "pool1", DepositAmount, vault_ata)

LiveDistribute ==
    /\ Exists(escrow, LiveRec)
    /\ \E mode \in LiveModes,
          target_pubkey \in Elems(escrow[LiveRec].contributors) :
          Distribute(LiveRec, "k0", "pool1", mode, target_pubkey,
                     Vault(LiveRec), Atas)

NextLive ==
    \/ LiveCreate
    \/ \E k \in LiveKeys : LiveDeposit(k)
    \/ LiveDistribute

SpecLive ==
    /\ Init
    /\ [][NextLive]_vars
    /\ WF_vars(LiveCreate)
    /\ \A k \in LiveKeys : WF_vars(LiveDeposit(k))
    /\ WF_vars(LiveDistribute)

(***************************************************************************)
(* C20: when the five depositors and the owner keep calling, a record that *)
(* exists is eventually distributed; and a step sets distributed only on a *)
(* record that had 5 contributors before the step.                         *)
(***************************************************************************)
C20_EventuallyDistributed ==
    /\ Exists(escrow, LiveRec)
          ~> (Exists(escrow, LiveRec) /\ escrow[LiveRec].distributed)
    /\ [][\A rec \in Records(escrow') :
             (escrow'[rec].distributed
                 /\ ~(rec \in Records(escrow) /\ escrow[rec].distributed))
                => /\ rec \in Records(escrow)
                   /\ Len(escrow[rec].contributors) = 5]_vars

====
